---- MODULE Spec2Model ----
(***************************************************************************)
(* Model of hack/check_go_errors.py: the line scanner check_file and the   *)
(* reporter main.  Lines are sequences of one-character strings, so that   *)
(* the regular expression, the prefix test and the column arithmetic are   *)
(* computed on characters as the code computes them.                       *)
(***************************************************************************)
EXTENDS Integers, Sequences, FiniteSets, TLC

VARIABLES
    argv,           \* sys.argv[1:], the paths given on the command line
    pc,             \* position of the process in main / check_file
    idx,            \* 1-based position in filepaths of the path being handled
    i,              \* line counter of enumerate(f, 1) in check_file
    line,           \* the line bound by the for statement of check_file
    match,          \* result of ERROR_PATTERN.search(line)
    invalid_lines,  \* local list of check_file
    errors,         \* value returned by check_file to main
    exc,            \* the exception in flight, NoException if none
    j,              \* position in errors of the next annotation to print
    exit_code,      \* local of main
    total_errors,   \* local of main
    stdout,         \* lines printed so far, oldest first
    origin,         \* for each element of stdout, the argv position it reports on
    summary_file_path, \* local of main: os.getenv("GITHUB_STEP_SUMMARY"), once read
    summary_file,   \* lines appended to the file named by GITHUB_STEP_SUMMARY
    outcomes,       \* one record per finished call of check_file
    exit_status     \* status passed to sys.exit, NoStatus while running

vars == <<argv, pc, idx, i, line, match, invalid_lines, errors, exc, j, exit_code,
          total_errors, stdout, origin, summary_file_path, summary_file, outcomes,
          exit_status>>

----------------------------------------------------------------------------
(* Bounds of the model *)

MaxArgs == 2
MaxLines == 2
ScanTokens == 6

----------------------------------------------------------------------------
(* Characters and text *)

Quote == "\""
Newline == "\n"

REQUIRED_WORDING == <<"f", "a", "i", "l", "e", "d", " ", "t", "o">>

\* The literal part of ERROR_PATTERN: fmt\.Errorf\("
PATTERN_LITERAL == <<"f", "m", "t", ".", "E", "r", "r", "o", "r", "f", "(", Quote>>

Min(S) == CHOOSE m \in S : \A n \in S : m <= n

\* Variant: the prefix is looked for anywhere in s.
StartsWithAnywhere(s, prefix) ==
    \E d \in 0..Len(s) :
        /\ d + Len(prefix) <= Len(s)
        /\ \A k \in 1..Len(prefix) : s[d + k] = prefix[k]

\* str.startswith
StartsWith(s, prefix) ==
    /\ Len(prefix) <= Len(s)
    /\ \A k \in 1..Len(prefix) : s[k] = prefix[k]

\* The pieces input lines are built from.
Tokens == {PATTERN_LITERAL, <<Quote>>, REQUIRED_WORDING, <<"x">>}

RECURSIVE Concat(_)
Concat(ss) == IF ss = <<>> THEN <<>> ELSE Head(ss) \o Concat(Tail(ss))

\* Every text line of at most n tokens, with its line terminator.
Lines(n) ==
    {Concat(ts) \o <<Newline>> : ts \in UNION {[1..k -> Tokens] : k \in 0..n}}

ScanLineSet == Lines(ScanTokens)

\* Lines read by the runs of main.  main sees a line only through the
\* dictionary check_file adds for it, so these runs read the lines made of a
\* pair of pieces; what check_file does on a line is settled on ScanLineSet.
Pieces == Tokens \cup {<<>>}
MainLineSet == {a \o b \o <<Newline>> : a \in Pieces, b \in Pieces}

\* The lines the k-th read of a file may yield in runs of check_file alone:
\* blank lines, then any line as the last one.
ScanLines(k) == IF k < MaxLines THEN {<<Newline>>} ELSE ScanLineSet

----------------------------------------------------------------------------
(* ERROR_PATTERN = re.compile(r'fmt\.Errorf\("([^"]+)"') *)

NoMatch == [matched |-> FALSE]

\* 1-based index of the first double quote at or after index from, 0 if none.
NextQuote(s, from) ==
    LET qs == {e \in from..Len(s) : s[e] = Quote}
    IN  IF qs = {} THEN 0 ELSE Min(qs)

\* Attempt of the pattern at 0-based offset p of s.  [^"]+ is greedy and
\* must be followed by a double quote, so group 1 runs to the next quote.
\* Offsets are the 0-based ones of match.start(1) and match.end(1).
MatchAt(s, p) ==
    LET g == p + Len(PATTERN_LITERAL)      \* 0-based offset where group 1 starts
        q == NextQuote(s, g + 1)           \* 1-based index of the closing quote
    IN  IF /\ g <= Len(s)
           /\ \A k \in 1..Len(PATTERN_LITERAL) : s[p + k] = PATTERN_LITERAL[k]
           /\ q > g + 1
        THEN [matched |-> TRUE, start |-> p, start1 |-> g, end1 |-> q - 1,
              group1 |-> SubSeq(s, g + 1, q - 1)]
        ELSE NoMatch

Max(S) == CHOOSE m \in S : \A n \in S : m >= n

\* Variant: the match at the rightmost offset that has one.
SearchLast(s) ==
    LET ps == {p \in 0..Len(s) : MatchAt(s, p).matched}
    IN  IF ps = {} THEN NoMatch ELSE MatchAt(s, Max(ps))

\* ERROR_PATTERN.search(s): the match at the leftmost offset that has one.
Search(s) ==
    LET ps == {p \in 0..Len(s) : MatchAt(s, p).matched}
    IN  IF ps = {} THEN NoMatch ELSE MatchAt(s, Min(ps))

----------------------------------------------------------------------------
(* Values *)

NoStatus == -1
Paths == {"a.go", "b.go"}
NoException == "none"
OpenErrors == {"IsADirectoryError"}
ReadErrors == {"UnicodeDecodeError"}
NotRead == "not read"
\* os.getenv: None when the variable is unset, else its value, which may be ""
EnvValues == {"None", "", "/tmp/summary.md"}
\* Variant: "is not None" instead of truthiness.
TruthyIsNotNone(v) == v # "None"

Truthy(v) == v # "None" /\ v # ""

Argvs == UNION {[1..n -> Paths] : n \in 0..MaxArgs}

\* Variant: the start column is left 0-based.
ViolationZeroBasedStart(n, m) ==
    [line_num |-> n, col_num |-> m.start1, end_col_num |-> m.end1,
     error_message |-> m.group1]

\* The dictionary appended to invalid_lines.
Violation(n, m) ==
    [line_num |-> n, col_num |-> m.start1 + 1, end_col_num |-> m.end1,
     error_message |-> m.group1]

\* The annotation printed for one element of errors.
ViolationLine(path, e) ==
    [kind |-> "error", title |-> "Incorrect error message format", file |-> path,
     line |-> e.line_num, col |-> e.col_num, endLine |-> e.line_num,
     endColumn |-> e.end_col_num,
     message |-> [wording |-> REQUIRED_WORDING, found |-> e.error_message]]

\* Variant: the file-level annotation is given the position fields too.
NotFoundLineWithPosition(path) ==
    [kind |-> "error", file |-> path, line |-> 1, col |-> 1, endLine |-> 1,
     endColumn |-> 1, message |-> "File not found."]

NotFoundLine(path) ==
    [kind |-> "error", file |-> path, message |-> "File not found."]

FailureLine(path, reason) ==
    [kind |-> "error", file |-> path,
     message |-> [text |-> "Error processing file: ", e |-> reason]]

UsageLine == [kind |-> "usage"]
HeadingLine == [kind |-> "heading", text |-> "### Go Error Message Linting"]
BlankLine == [kind |-> "blank"]
CountLine(n) == [kind |-> "count", found |-> n]

----------------------------------------------------------------------------
(* Initial state: the process has been started with argv *)

Init ==
    /\ argv \in Argvs
    /\ pc = "main"
    /\ idx = 0
    /\ i = 0
    /\ line = <<>>
    /\ match = NoMatch
    /\ invalid_lines = <<>>
    /\ errors = <<>>
    /\ exc = NoException
    /\ j = 0
    /\ exit_code = 0
    /\ total_errors = 0
    /\ stdout = <<>>
    /\ origin = <<>>
    /\ summary_file_path = NotRead
    /\ summary_file = <<>>
    /\ outcomes = <<>>
    /\ exit_status = NoStatus

----------------------------------------------------------------------------
(* check_file *)

scanVars == <<i, line, match, invalid_lines>>
mainVars == <<errors, j, exit_code, total_errors, stdout, origin, summary_file_path,
              summary_file, exit_status>>

\* The locals of check_file stop existing when it is left.
Leave ==
    /\ i' = 0
    /\ line' = <<>>
    /\ match' = NoMatch
    /\ invalid_lines' = <<>>

\* Variant: check_file swallows the exception and returns what it collected.
RaiseSwallowed(kind, reason) ==
    /\ pc' = "returned"
    /\ errors' = invalid_lines
    /\ Leave
    /\ UNCHANGED <<argv, idx, exc, j, exit_code, total_errors, stdout, origin,
                   summary_file_path, summary_file, exit_status>>

\* An exception leaves check_file: nothing is returned.
Raise(kind, reason) ==
    /\ pc' = kind
    /\ exc' = reason
    /\ Leave
    /\ UNCHANGED <<argv, idx, mainVars>>

\* What the call of check_file on the path at idx came to: how it ended, the
\* list it returned, and how many collected dictionaries the failure dropped.
Outcome(kind, returned, dropped) ==
    [arg |-> idx, kind |-> kind, violations |-> returned, dropped |-> dropped]

\* filepath.open('r', encoding='utf-8') on a path that does not exist.
OpenNotFound ==
    /\ pc = "open"
    /\ outcomes' = Append(outcomes, Outcome("FileNotFoundError", <<>>, 0))
    /\ Raise("FileNotFoundError", "FileNotFoundError")

\* filepath.open fails otherwise (a directory, no permission).
OpenFailure ==
    /\ pc = "open"
    /\ outcomes' = Append(outcomes, Outcome("Exception", <<>>, 0))
    /\ \E r \in OpenErrors : Raise("Exception", r)

\* filepath.open succeeds; invalid_lines = [] was executed before it.
OpenOk ==
    /\ pc = "open"
    /\ pc' = "iter"
    /\ UNCHANGED <<argv, idx, exc, outcomes, scanVars, mainVars>>

\* The iterator yields the next line; the pattern is searched in it.
ReadLine(lineSet) ==
    /\ pc = "iter"
    /\ i < MaxLines
    /\ \E l \in lineSet :
        /\ line' = l
        /\ match' = Search(l)
    /\ i' = i + 1
    /\ pc' = "check"
    /\ UNCHANGED <<argv, idx, exc, outcomes, invalid_lines, mainVars>>

\* Reading or decoding the next line fails.
ReadFailure ==
    /\ pc = "iter"
    /\ outcomes' = Append(outcomes, Outcome("Exception", <<>>, Len(invalid_lines)))
    /\ \E r \in ReadErrors : Raise("Exception", r)

\* Variant: the dictionary is inserted at the front of invalid_lines.
CheckLinePrepends ==
    /\ pc = "check"
    /\ invalid_lines' =
         IF match.matched /\ ~StartsWith(match.group1, REQUIRED_WORDING)
         THEN <<Violation(i, match)>> \o invalid_lines
         ELSE invalid_lines
    /\ pc' = "iter"
    /\ UNCHANGED <<argv, idx, exc, outcomes, i, line, match, mainVars>>

\* Body of the for loop after the search.
CheckLine ==
    /\ pc = "check"
    /\ invalid_lines' =
         IF match.matched /\ ~StartsWith(match.group1, REQUIRED_WORDING)
         THEN Append(invalid_lines, Violation(i, match))
         ELSE invalid_lines
    /\ pc' = "iter"
    /\ UNCHANGED <<argv, idx, exc, outcomes, i, line, match, mainVars>>

\* The iterator is exhausted: return invalid_lines.
Return ==
    /\ pc = "iter"
    /\ errors' = invalid_lines
    /\ outcomes' = Append(outcomes, Outcome("returned", invalid_lines, 0))
    /\ pc' = "returned"
    /\ Leave
    /\ UNCHANGED <<argv, idx, exc, j, exit_code, total_errors, stdout, origin,
                   summary_file_path, summary_file, exit_status>>

----------------------------------------------------------------------------
(* main *)

\* len(sys.argv) < 2: print the usage and sys.exit(1).
Usage ==
    /\ pc = "main"
    /\ Len(argv) = 0
    /\ stdout' = Append(stdout, UsageLine)
    /\ origin' = Append(origin, 0)
    /\ exit_status' = 1
    /\ pc' = "exited"
    /\ UNCHANGED <<argv, idx, errors, exc, j, outcomes, scanVars, exit_code,
                   total_errors, summary_file_path, summary_file>>

\* exit_code = 0, filepaths = [...], total_errors = 0, first iteration next.
Begin ==
    /\ pc = "main"
    /\ Len(argv) >= 1
    /\ exit_code' = 0
    /\ total_errors' = 0
    /\ idx' = 1
    /\ pc' = "loop"
    /\ UNCHANGED <<argv, errors, exc, j, outcomes, scanVars, stdout, origin,
                   summary_file_path, summary_file, exit_status>>

\* for path in filepaths: errors = check_file(path) is called.
CallCheckFile ==
    /\ pc = "loop"
    /\ idx <= Len(argv)
    /\ invalid_lines' = <<>>
    /\ i' = 0
    /\ line' = <<>>
    /\ match' = NoMatch
    /\ pc' = "open"
    /\ UNCHANGED <<argv, idx, exc, outcomes, mainVars>>

\* Variant: total_errors += 1 for a file with violations.
ReceivedCountsFile ==
    /\ pc = "returned"
    /\ IF errors # <<>>
       THEN /\ exit_code' = 1
            /\ total_errors' = total_errors + 1
            /\ j' = 1
            /\ pc' = "print"
            /\ idx' = idx
       ELSE /\ idx' = idx + 1
            /\ pc' = "loop"
            /\ UNCHANGED <<exit_code, total_errors, j>>
    /\ UNCHANGED <<argv, errors, exc, outcomes, scanVars, stdout, origin,
                   summary_file_path, summary_file, exit_status>>

\* if errors: exit_code = 1; total_errors += len(errors); else next path.
Received ==
    /\ pc = "returned"
    /\ IF errors # <<>>
       THEN /\ exit_code' = 1
            /\ total_errors' = total_errors + Len(errors)
            /\ j' = 1
            /\ pc' = "print"
            /\ idx' = idx
       ELSE /\ idx' = idx + 1
            /\ pc' = "loop"
            /\ UNCHANGED <<exit_code, total_errors, j>>
    /\ UNCHANGED <<argv, errors, exc, outcomes, scanVars, stdout, origin,
                   summary_file_path, summary_file, exit_status>>

\* for error in errors: print the annotation.
PrintAnnotation ==
    /\ pc = "print"
    /\ stdout' = Append(stdout, ViolationLine(argv[idx], errors[j]))
    /\ origin' = Append(origin, idx)
    /\ IF j < Len(errors)
       THEN /\ j' = j + 1
            /\ UNCHANGED <<pc, idx>>
       ELSE /\ j' = 0
            /\ idx' = idx + 1
            /\ pc' = "loop"
    /\ UNCHANGED <<argv, errors, exc, outcomes, scanVars, exit_code, total_errors,
                   summary_file_path, summary_file, exit_status>>

\* Variant: the handler does not set exit_code.
ExceptNotFoundKeepsExitCode ==
    /\ pc = "FileNotFoundError"
    /\ total_errors' = total_errors + 1
    /\ stdout' = Append(stdout, NotFoundLine(argv[idx]))
    /\ origin' = Append(origin, idx)
    /\ idx' = idx + 1
    /\ pc' = "loop"
    /\ exc' = NoException
    /\ UNCHANGED <<argv, errors, j, outcomes, scanVars, exit_code,
                   summary_file_path, summary_file, exit_status>>

\* except FileNotFoundError
ExceptNotFound ==
    /\ pc = "FileNotFoundError"
    /\ exit_code' = 1
    /\ total_errors' = total_errors + 1
    /\ stdout' = Append(stdout, NotFoundLine(argv[idx]))
    /\ origin' = Append(origin, idx)
    /\ idx' = idx + 1
    /\ pc' = "loop"
    /\ exc' = NoException
    /\ UNCHANGED <<argv, errors, j, outcomes, scanVars,
                   summary_file_path, summary_file, exit_status>>

\* Variant: the handler leaves the loop after reporting.
ExceptOtherBreaks ==
    /\ pc = "Exception"
    /\ exit_code' = 1
    /\ total_errors' = total_errors + 1
    /\ stdout' = Append(stdout, FailureLine(argv[idx], exc))
    /\ origin' = Append(origin, idx)
    /\ idx' = Len(argv) + 1
    /\ pc' = "loop"
    /\ exc' = NoException
    /\ UNCHANGED <<argv, errors, j, outcomes, scanVars,
                   summary_file_path, summary_file, exit_status>>

\* except Exception as e
ExceptOther ==
    /\ pc = "Exception"
    /\ exit_code' = 1
    /\ total_errors' = total_errors + 1
    /\ stdout' = Append(stdout, FailureLine(argv[idx], exc))
    /\ origin' = Append(origin, idx)
    /\ idx' = idx + 1
    /\ pc' = "loop"
    /\ exc' = NoException
    /\ UNCHANGED <<argv, errors, j, outcomes, scanVars,
                   summary_file_path, summary_file, exit_status>>

\* The loop is over: if total_errors > 0, the summary goes to the file named
\* by GITHUB_STEP_SUMMARY when that value is truthy, else to standard output.
Summary ==
    /\ pc = "loop"
    /\ idx > Len(argv)
    /\ IF total_errors > 0
       THEN \E env \in EnvValues :
               /\ summary_file_path' = env
               /\ IF Truthy(env)
                  THEN /\ summary_file' = summary_file \o
                              <<HeadingLine, BlankLine, CountLine(total_errors)>>
                       /\ UNCHANGED <<stdout, origin>>
                  ELSE /\ stdout' = stdout \o <<BlankLine, CountLine(total_errors)>>
                       /\ origin' = origin \o <<0, 0>>
                       /\ UNCHANGED summary_file
       ELSE UNCHANGED <<stdout, origin, summary_file_path, summary_file>>
    /\ pc' = "exit"
    /\ UNCHANGED <<argv, idx, errors, exc, j, outcomes, scanVars, exit_code,
                   total_errors, exit_status>>

\* sys.exit(exit_code)
Exit ==
    /\ pc = "exit"
    /\ exit_status' = exit_code
    /\ pc' = "exited"
    /\ UNCHANGED <<argv, idx, errors, exc, j, outcomes, scanVars, exit_code,
                   total_errors, stdout, origin, summary_file_path, summary_file>>

Next ==
    \/ Usage
    \/ Begin
    \/ CallCheckFile
    \/ OpenNotFound
    \/ OpenFailure
    \/ OpenOk
    \/ ReadLine(MainLineSet)
    \/ ReadFailure
    \/ CheckLine
    \/ Return
    \/ Received
    \/ PrintAnnotation
    \/ ExceptNotFound
    \/ ExceptOther
    \/ Summary
    \/ Exit

Spec == Init /\ [][Next]_vars

----------------------------------------------------------------------------
(* check_file called on its own, on a file that can be opened and read *)

InitScan ==
    /\ argv \in [1..1 -> Paths]
    /\ pc = "open"
    /\ idx = 1
    /\ i = 0
    /\ line = <<>>
    /\ match = NoMatch
    /\ invalid_lines = <<>>
    /\ errors = <<>>
    /\ exc = NoException
    /\ j = 0
    /\ exit_code = 0
    /\ total_errors = 0
    /\ stdout = <<>>
    /\ origin = <<>>
    /\ summary_file_path = NotRead
    /\ summary_file = <<>>
    /\ outcomes = <<>>
    /\ exit_status = NoStatus

NextScan ==
    \/ OpenOk
    \/ ReadLine(ScanLines(i + 1))
    \/ CheckLine
    \/ Return

SpecScan == InitScan /\ [][NextScan]_vars

----------------------------------------------------------------------------
(* Vocabulary of the properties *)

\* The lines of stdout that report on the path at argv position k, in order.
ReportIn(out, org, k) ==
    LET F[n \in 0..Len(out)] ==
            IF n = 0 THEN <<>>
            ELSE IF org[n] = k THEN Append(F[n - 1], out[n]) ELSE F[n - 1]
    IN  F[Len(out)]

Report(k) == ReportIn(stdout, origin, k)

\* The call of check_file on position k is over and main has dealt with it.
Handled(k) == k \in 1..Len(outcomes) /\ (k < idx \/ pc = "exited")

Failed(o) == o.kind \in {"FileNotFoundError", "Exception"}

IsAnnotation(a) == a.kind = "error"
IsFileLevel(a) == IsAnnotation(a) /\ DOMAIN a = {"kind", "file", "message"}
IsLineLevel(a) ==
    IsAnnotation(a) /\ {"line", "col", "endLine", "endColumn"} \subseteq DOMAIN a

\* Number of errors one call of check_file stands for.
Contribution(o) == IF Failed(o) THEN 1 ELSE Len(o.violations)

RECURSIVE SumContributions(_)
SumContributions(os) ==
    IF os = <<>> THEN 0 ELSE Contribution(Head(os)) + SumContributions(Tail(os))

Annotations == SelectSeq(stdout, IsAnnotation)

Finished == pc \in {"exit", "exited"} /\ Len(argv) >= 1

----------------------------------------------------------------------------
C2_FailureDoesNotAbort ==
    /\ \A k \in 1..Len(outcomes) :
          Handled(k) =>
             LET r == Report(k)
             IN
             IF Failed(outcomes[k])
             THEN Len(r) = 1 /\ r[1].file = argv[k]
             ELSE /\ Len(r) = Len(outcomes[k].violations)
                  /\ \A n \in 1..Len(r) :
                        LET a == r[n]
                            v == outcomes[k].violations[n]
                        IN  /\ a.file = argv[k]
                            /\ a.line = v.line_num
                            /\ a.col = v.col_num
                            /\ a.endColumn = v.end_col_num
                            /\ a.message.found = v.error_message
    /\ pc = "exited" /\ Len(argv) >= 1 =>
          /\ Len(outcomes) = Len(argv)
          /\ \A k \in 1..Len(argv) : outcomes[k].arg = k

C2_Witness ==
    /\ pc = "exited"
    /\ Len(outcomes) = 2
    /\ Failed(outcomes[1])
    /\ outcomes[2].kind = "returned"
    /\ Len(outcomes[2].violations) = 2
    /\ Len(Report(2)) = 2

(* C3: a path that does not exist gets exactly one annotation, which names   *)
(* the file and has no line, col, endLine or endColumn, and adds exactly 1   *)
(* to total_errors; no other annotation is printed for it.                   *)
C3_NotFound ==
    [][pc = "FileNotFoundError" =>
          /\ total_errors' = total_errors + 1
          /\ Len(stdout') = Len(stdout) + 1
          /\ Report(idx) = <<>>
          /\ ReportIn(stdout', origin', idx) = <<stdout'[Len(stdout')]>>
          /\ IsFileLevel(stdout'[Len(stdout')])
          /\ stdout'[Len(stdout')].file = argv[idx]
          /\ DOMAIN stdout'[Len(stdout')] \cap {"line", "col", "endLine", "endColumn"} = {}
          /\ idx' = idx + 1]_vars

C3_Witness ==
    /\ pc = "exited"
    /\ \E k \in 1..Len(outcomes) :
          /\ outcomes[k].kind = "FileNotFoundError"
          /\ Len(Report(k)) = 1
    /\ total_errors = 1

IsSummaryLine(a) == a.kind \in {"heading", "blank", "count"}
SummaryOnStdout == SelectSeq(stdout, IsSummaryLine)
SinkConfigured == summary_file_path \notin {NotRead, "None", ""}

(* C6, as stated: a summary is written exactly when total_errors is nonzero; *)
(* the heading and the count go to the summary file when one is configured,  *)
(* otherwise both the heading and the count are printed to standard output.  *)
C6_AsStated ==
    Finished =>
        IF total_errors = 0
        THEN summary_file = <<>> /\ SummaryOnStdout = <<>>
        ELSE IF SinkConfigured
             THEN /\ \E n \in 1..Len(summary_file) : summary_file[n] = HeadingLine
                  /\ \E n \in 1..Len(summary_file) :
                        summary_file[n] = CountLine(total_errors)
             ELSE /\ \E n \in 1..Len(stdout) : stdout[n] = HeadingLine
                  /\ \E n \in 1..Len(stdout) : stdout[n] = CountLine(total_errors)

(* C6, amended: a summary is written exactly when total_errors is nonzero;   *)
(* when GITHUB_STEP_SUMMARY has a non-empty value the heading, a blank line  *)
(* and the count are appended to that file and nothing to standard output;   *)
(* otherwise standard output gets a blank line and the count, no heading.    *)
C6_Summary ==
    /\ ~Finished => summary_file = <<>> /\ SummaryOnStdout = <<>>
    /\ Finished =>
        IF total_errors = 0
        THEN summary_file = <<>> /\ SummaryOnStdout = <<>>
        ELSE IF SinkConfigured
             THEN /\ summary_file = <<HeadingLine, BlankLine, CountLine(total_errors)>>
                  /\ SummaryOnStdout = <<>>
             ELSE /\ summary_file = <<>>
                  /\ SummaryOnStdout = <<BlankLine, CountLine(total_errors)>>
                  /\ stdout[Len(stdout)] = CountLine(total_errors)

C6_Witness ==
    /\ pc = "exited"
    /\ total_errors = 2
    /\ summary_file_path = "None"
    /\ stdout[Len(stdout)] = CountLine(2)
    /\ \A n \in 1..Len(stdout) : stdout[n] # HeadingLine

(* C7: once a path has been dealt with, the number of ::error lines on       *)
(* standard output equals total_errors: one line per violation and one per   *)
(* failed path; the count in the summary is that number.                     *)
C7_AnnotationsCounted ==
    pc \in {"loop", "exit", "exited"} =>
        LET printed == Len(Annotations)
        IN  /\ printed = total_errors
            /\ total_errors = SumContributions(outcomes)
            /\ \A k \in 1..Len(outcomes) :
                  Len(Report(k)) = Contribution(outcomes[k])
            /\ \A n \in 1..Len(stdout) :
                  stdout[n].kind = "count" => stdout[n].found = printed
            /\ \A n \in 1..Len(summary_file) :
                  summary_file[n].kind = "count" => summary_file[n].found = printed

C7_Witness ==
    /\ pc = "exited"
    /\ Len(Annotations) = 3
    /\ \E k \in 1..Len(outcomes) : Failed(outcomes[k])
    /\ \E k \in 1..Len(outcomes) : Len(outcomes[k].violations) = 2
    /\ summary_file = <<HeadingLine, BlankLine, CountLine(3)>>

(* C9: every path has exactly one outcome: its call returned a list and all  *)
(* lines printed for it are violation annotations, or its call failed and    *)
(* one file-level annotation is printed for it; a failure after some lines   *)
(* had been collected prints none of them and counts as 1.                   *)
C9_OneOutcomePerPath ==
    /\ \A k \in 1..Len(outcomes) :
          /\ outcomes[k].kind \in {"returned", "FileNotFoundError", "Exception"}
          /\ Failed(outcomes[k]) => outcomes[k].violations = <<>>
          /\ Handled(k) =>
                LET r == Report(k)
                IN
                IF Failed(outcomes[k])
                THEN /\ Len(r) = 1
                     /\ IsFileLevel(r[1])
                     /\ ~IsLineLevel(r[1])
                ELSE \A n \in 1..Len(r) : IsLineLevel(r[n])
    /\ pc = "loop" =>
          total_errors =
              Cardinality({k \in 1..Len(outcomes) : Failed(outcomes[k])}) +
              Len(SelectSeq(stdout, IsLineLevel))

C9_Witness ==
    /\ pc = "exited"
    /\ \E k \in 1..Len(outcomes) :
          /\ outcomes[k].kind = "Exception"
          /\ outcomes[k].dropped >= 1
          /\ Len(Report(k)) = 1
    /\ total_errors = 1

(* C10: paths are scanned once each, in argument order; the annotations of a *)
(* path all come before those of a later path; within a file the violation   *)
(* annotations are in strictly increasing line order; the summary is written *)
(* after the last annotation.                                                *)
C10_Sequential ==
    /\ Len(outcomes) <= Len(argv)
    /\ \A k \in 1..Len(outcomes) : outcomes[k].arg = k
    /\ pc \in {"open", "iter", "check"} => Len(outcomes) = idx - 1
    /\ Finished => Len(outcomes) = Len(argv)
    /\ \A n \in 1..Len(stdout) :
          /\ IsAnnotation(stdout[n]) => origin[n] \in 1..idx
          /\ IsSummaryLine(stdout[n]) =>
                /\ Finished
                /\ \A m \in 1..Len(stdout) : IsAnnotation(stdout[m]) => m < n
    /\ summary_file # <<>> => Finished
    /\ \A m, n \in 1..Len(stdout) :
          m < n /\ IsAnnotation(stdout[m]) /\ IsAnnotation(stdout[n]) =>
              /\ origin[m] <= origin[n]
              /\ origin[m] = origin[n] =>
                    /\ IsLineLevel(stdout[m]) /\ IsLineLevel(stdout[n])
                    /\ stdout[m].line < stdout[n].line

C10_Witness ==
    /\ pc = "exited"
    /\ Len(Report(1)) = 2
    /\ Len(Report(2)) = 2
    /\ stdout[Len(stdout)] = CountLine(4)

----------------------------------------------------------------------------
(* Vocabulary of the properties of check_file, stated on the text of a line *)

\* The token fmt.Errorf( and an opening double quote stand at 0-based offset p.
LiteralAt(s, p) ==
    /\ p + Len(PATTERN_LITERAL) <= Len(s)
    /\ SubSeq(s, p + 1, p + Len(PATTERN_LITERAL)) = PATTERN_LITERAL

\* 1-based index of the quote that closes the string literal opened at p.
ClosingQuotes(s, p) ==
    {q \in (p + Len(PATTERN_LITERAL) + 1)..Len(s) :
        /\ s[q] = Quote
        /\ \A r \in (p + Len(PATTERN_LITERAL) + 1)..(q - 1) : s[r] # Quote}

\* A call with a closed string literal, empty or not, stands at offset p.
CallAt(s, p) == LiteralAt(s, p) /\ ClosingQuotes(s, p) # {}

MessageAt(s, p) ==
    SubSeq(s, p + Len(PATTERN_LITERAL) + 1, (CHOOSE q \in ClosingQuotes(s, p) : TRUE) - 1)

CallsIn(s) == {p \in 0..Len(s) : CallAt(s, p)}
NonEmptyCallsIn(s) == {p \in CallsIn(s) : MessageAt(s, p) # <<>>}

BeginsWithWording(m) ==
    /\ Len(m) >= Len(REQUIRED_WORDING)
    /\ SubSeq(m, 1, Len(REQUIRED_WORDING)) = REQUIRED_WORDING

\* The loop body has just been run on line, which is line number i.
LineChecked == pc = "iter" /\ i >= 1

ViolationsOfLine(n) == SelectSeq(invalid_lines, LAMBDA v : v.line_num = n)

(* C4, as stated: a line holding a call whose message, empty or not and      *)
(* wherever the call stands on the line, does not begin with the required    *)
(* wording yields exactly one Violation.                                     *)
C4_AsStated ==
    LineChecked =>
        ((\E p \in CallsIn(line) : ~BeginsWithWording(MessageAt(line, p)))
            => Len(ViolationsOfLine(i)) = 1)

(* C4, amended: a line whose leftmost call with a non-empty message has a    *)
(* message that does not begin with the required wording yields exactly one  *)
(* Violation, which carries that message.                                    *)
C4_FirstCallViolation ==
    LineChecked =>
        \A p \in NonEmptyCallsIn(line) :
            /\ \A r \in NonEmptyCallsIn(line) : p <= r
            /\ ~BeginsWithWording(MessageAt(line, p))
            => /\ Len(ViolationsOfLine(i)) = 1
               /\ ViolationsOfLine(i)[1].error_message = MessageAt(line, p)

C4_Witness ==
    /\ LineChecked
    /\ Cardinality(NonEmptyCallsIn(line)) = 2
    /\ \E p \in NonEmptyCallsIn(line) :
          /\ p > 0
          /\ \A r \in NonEmptyCallsIn(line) : p <= r
          /\ ~BeginsWithWording(MessageAt(line, p))
    /\ Len(ViolationsOfLine(i)) = 1

(* C5, as stated: col_num is the 1-based column of the first character of    *)
(* the captured text and end_col_num the 1-based column one past its last    *)
(* character, so end_col_num - col_num is the length of the captured text.   *)
C5_AsStated ==
    LineChecked =>
        \A n \in 1..Len(ViolationsOfLine(i)) :
            LET a == ViolationLine(argv[idx], ViolationsOfLine(i)[n])
            IN  /\ SubSeq(line, a.col, a.endColumn - 1) = a.message.found
                /\ a.endColumn - a.col = Len(a.message.found)

(* C5, amended: col_num is the 1-based column of the first character of the  *)
(* captured text and end_col_num the 1-based column of its last character    *)
(* (the 0-based offset one past it), so the closed range [col_num,           *)
(* end_col_num] covers exactly the captured text and end_col_num - col_num   *)
(* is its length minus one.                                                  *)
C5_Columns ==
    LineChecked =>
        \A n \in 1..Len(ViolationsOfLine(i)) :
            LET v == ViolationsOfLine(i)[n]
                a == ViolationLine(argv[idx], v)
            IN  /\ a.col = v.col_num /\ a.endColumn = v.end_col_num
                /\ a.line = i /\ a.endLine = i
                /\ a.col >= 1 /\ a.endColumn <= Len(line)
                /\ SubSeq(line, a.col, a.endColumn) = a.message.found
                /\ a.endColumn - a.col = Len(a.message.found) - 1
                /\ line[a.col - 1] = Quote
                /\ line[a.endColumn + 1] = Quote

C5_Witness ==
    /\ LineChecked
    /\ Len(invalid_lines) = 1
    /\ invalid_lines[1].col_num > Len(PATTERN_LITERAL) + 1
    /\ Len(invalid_lines[1].error_message) >= 2
    /\ invalid_lines[1].end_col_num - invalid_lines[1].col_num
          = Len(invalid_lines[1].error_message) - 1

(* C8: a line yields at most one Violation, and yields one exactly when its  *)
(* leftmost match captures a text that does not begin with the required      *)
(* wording; calls further right on the line change nothing.                  *)
C8_FirstMatchOnly ==
    LineChecked =>
        LET calls == NonEmptyCallsIn(line)
            first == CHOOSE p \in calls : \A r \in calls : p <= r
        IN  /\ Len(ViolationsOfLine(i)) <= 1
            /\ Len(ViolationsOfLine(i)) = 1 <=>
                  calls # {} /\ ~BeginsWithWording(MessageAt(line, first))
            /\ Len(ViolationsOfLine(i)) = 1 =>
                  /\ ViolationsOfLine(i)[1].error_message = MessageAt(line, first)
                  /\ ViolationsOfLine(i)[1].col_num = first + Len(PATTERN_LITERAL) + 1

C8_Witness ==
    /\ LineChecked
    /\ Cardinality(NonEmptyCallsIn(line)) = 2
    /\ \E p, r \in NonEmptyCallsIn(line) :
          /\ p < r
          /\ BeginsWithWording(MessageAt(line, p))
          /\ ~BeginsWithWording(MessageAt(line, r))
    /\ invalid_lines = <<>>

====
